---- MODULE Spec2Model ----
(***************************************************************************)
(* A model of sky.py: the text sky map of 15 bright stars, the Sun and the *)
(* Moon.  Angles are exact rationals: an altitude is a whole number of     *)
(* degrees, an azimuth is one of twelve directions whose sine and cosine   *)
(* are k/5 (the four cardinal points and the eight 3-4-5 directions), and  *)
(* is written in hundredths of a degree.  The astronomy library (astropy)  *)
(* is outside the program: what it returns is a nondeterministic choice.   *)
(* altaz and cells record what the two loops computed in each iteration    *)
(* (the loop variables altaz and x, y), so that properties can refer to    *)
(* every object and not only to the last one.                              *)
(***************************************************************************)
EXTENDS Integers, Sequences, FiniteSets, TLC

VARIABLES
  pc,              \* where the program is
  grid_size, save_to_file, color_output,    \* the arguments of generate_star_map
  location, observing_time,
  sun, moon,       \* the AltAz position of the Sun and of the Moon
  star,            \* index in the catalogue of the next star to resolve
  altaz,           \* the AltAz position of every star resolved so far
  objects,         \* the visible objects
  sky,             \* the grid, indexed by <<y, x>>
  cells,           \* <<x, y>> as computed for objects[1..Len(cells)]
  sky_map,         \* the rendered map, a sequence of lines
  isatty,          \* what sys.stdout.isatty() answered: "yes", "no", or "unasked"
  stdout,          \* the lines printed
  file,            \* the file written
  az_in, alt_in, g_in, cell_out    \* the projection on its own

vars == <<pc, grid_size, save_to_file, color_output, location, observing_time,
          sun, moon, star, altaz, objects, sky, cells, sky_map, isatty, stdout,
          file, az_in, alt_in, g_in, cell_out>>

mapVars == <<pc, grid_size, save_to_file, color_output, location, observing_time,
             sun, moon, star, altaz, objects, sky, cells, sky_map, isatty,
             stdout, file>>

projVars == <<az_in, alt_in, g_in, cell_out>>

(***************************************************************************)
(* Bounds of the model.                                                    *)
(***************************************************************************)
NumStars == 2
MinGrid == 11
MaxGrid == 11
MaxProjGrid == 52
MinProjAlt == 20

(***************************************************************************)
(* Glyphs and escape codes.                                                *)
(* Text is made of one-character strings.  The three glyphs of the        *)
(* objects and the two glyphs that only the colouring looks for are each   *)
(* one code point; a letter stands for each: s = U+2726 (star),            *)
(* O = U+1F31E (Sun), C = U+1F315 (Moon), x = U+263C, c = U+25D1.  The     *)
(* character ^ stands for ESC (\033), "deg" for the degree sign.           *)
(***************************************************************************)
Blank == " "
StarSymbol == "s"
SunSymbol == "O"
MoonSymbol == "C"
ColorStarGlyph == "*"
ColorSunGlyph == "x"
ColorMoonGlyph == "c"
Yellow == "^[93m"
Red == "^[91m"
Cyan == "^[96m"
Reset == "^[0m"

DefaultGridSize == 50
SunThreshold == 0 - 18
HorizonThreshold == 0

(***************************************************************************)
(* Trigonometry on the twelve directions: 5*sin(az) and 5*cos(az), and     *)
(* whether math.sin / math.cos of math.radians(az) is that value exactly   *)
(* in floating point (cos(radians(90)) is 6.1e-17, not 0).                 *)
(***************************************************************************)
Cardinal == {0, 9000, 18000, 27000}
Oblique == {3687, 5313, 12687, 14313, 21687, 23313, 30687, 32313}
Directions == Cardinal \cup Oblique

Sin5(az) ==
  CASE az = 0 -> 0      [] az = 3687 -> 3   [] az = 5313 -> 4
    [] az = 9000 -> 5   [] az = 12687 -> 4  [] az = 14313 -> 3
    [] az = 18000 -> 0  [] az = 21687 -> 0 - 3 [] az = 23313 -> 0 - 4
    [] az = 27000 -> 0 - 5 [] az = 30687 -> 0 - 4 [] az = 32313 -> 0 - 3

Cos5(az) ==
  CASE az = 0 -> 5      [] az = 3687 -> 4   [] az = 5313 -> 3
    [] az = 9000 -> 0   [] az = 12687 -> 0 - 3 [] az = 14313 -> 0 - 4
    [] az = 18000 -> 0 - 5 [] az = 21687 -> 0 - 4 [] az = 23313 -> 0 - 3
    [] az = 27000 -> 0  [] az = 30687 -> 3  [] az = 32313 -> 4

SinExact(az) == az \in {0, 9000, 27000}
CosExact(az) == az \in {0, 18000}

(***************************************************************************)
(* int(round(n/d)) for d > 0.  Python rounds a tie to the even neighbour.  *)
(* When the floating-point operands carry a rounding error the value       *)
(* handed to round() lies just above or just below the exact tie, so       *)
(* either neighbour can result.                                            *)
(***************************************************************************)
RoundHalfUp(n, d, exact) ==
  IF 2 * (n % d) < d THEN {n \div d} ELSE {(n \div d) + 1}

Round(n, d, exact) ==
  LET q == n \div d
      twice == 2 * (n % d)
  IN  IF twice < d THEN {q}
      ELSE IF twice > d THEN {q + 1}
      ELSE IF exact THEN {IF q % 2 = 0 THEN q ELSE q + 1}
      ELSE {q, q + 1}

(***************************************************************************)
(* r = (90 - alt) / 90 * (grid_size / 2); it is computed without rounding  *)
(* error when (90 - alt) / 90 is 0, 1/2 or 1.                              *)
(***************************************************************************)
RadiusExact(alt) == (90 - alt) % 45 = 0

ProjectX(az, alt, g) ==
  Round(450 * g + (90 - alt) * g * Sin5(az), 900,
        alt = 90 \/ (RadiusExact(alt) /\ SinExact(az)))

ProjectY(az, alt, g) ==
  Round(450 * g - (90 - alt) * g * Cos5(az), 900,
        alt = 90 \/ (RadiusExact(alt) /\ CosExact(az)))

Project(az, alt, g) == ProjectX(az, alt, g) \X ProjectY(az, alt, g)

InBounds(cell, g) == 0 <= cell[1] /\ cell[1] < g /\ 0 <= cell[2] /\ cell[2] < g

(***************************************************************************)
(* The catalogue (the first NumStars entries of star_data) and what the    *)
(* astronomy library may return for each class of object.                  *)
(***************************************************************************)
star_data == <<"Sirius", "Betelgeuse", "Rigel", "Vega", "Altair", "Polaris",
               "Capella", "Aldebaran", "Antares", "Spica", "Procyon", "Deneb",
               "Canopus", "Arcturus", "Regulus">>
Catalog == SubSeq(star_data, 1, NumStars)

Pos(az, alt) == [az |-> az, alt |-> alt]
StarSky == {Pos(9000, 0), Pos(9000, 1), Pos(0, 90)}
SunSky == {Pos(27000, 0 - 20), Pos(27000, 0 - 18), Pos(27000, 0 - 10),
           Pos(3687, 0 - 10), Pos(3687, 90)}
MoonSky == {Pos(27000, 0), Pos(18000, 90)}

ClassOf(name) ==
  IF name = "Sun" THEN "sun" ELSE IF name = "Moon" THEN "moon" ELSE "star"

IsVisibleInclusive(class, alt) ==
  IF class = "sun" THEN alt >= SunThreshold ELSE alt >= HorizonThreshold

IsVisibleAboveHorizon(class, alt) == alt > HorizonThreshold

IsVisible(class, alt) ==
  IF class = "sun" THEN alt > SunThreshold ELSE alt > HorizonThreshold

(***************************************************************************)
(* Text.  Numbers are formatted as Python's f"{v:.4f}" and f"{v:.2f}"      *)
(* format them.                                                            *)
(***************************************************************************)
Abs(v) == IF v < 0 THEN 0 - v ELSE v

Pad(v, width) ==
  IF width = 4 /\ v < 10 THEN "000" \o ToString(v)
  ELSE IF width = 4 /\ v < 100 THEN "00" \o ToString(v)
  ELSE IF width = 4 /\ v < 1000 THEN "0" \o ToString(v)
  ELSE IF width = 2 /\ v < 10 THEN "0" \o ToString(v)
  ELSE ToString(v)

\* v is in units of 1/10000 degree
Fmt4(v) ==
  (IF v < 0 THEN "-" ELSE "") \o ToString(Abs(v) \div 10000) \o "."
    \o Pad(Abs(v) % 10000, 4)

\* v is in units of 1/100 degree
Fmt2(v) ==
  (IF v < 0 THEN "-" ELSE "") \o ToString(Abs(v) \div 100) \o "."
    \o Pad(Abs(v) % 100, 2)

\* strftime('%Y-%m-%d %H:%M:%S') and strftime('%Y%m%d_%H%M%S') of <<Y,M,D,h,m,s>>
FmtDateTime(t) ==
  ToString(t[1]) \o "-" \o Pad(t[2], 2) \o "-" \o Pad(t[3], 2) \o " "
    \o Pad(t[4], 2) \o ":" \o Pad(t[5], 2) \o ":" \o Pad(t[6], 2)

FmtStamp(t) ==
  ToString(t[1]) \o Pad(t[2], 2) \o Pad(t[3], 2) \o "_"
    \o Pad(t[4], 2) \o Pad(t[5], 2) \o Pad(t[6], 2)

LocationLine(loc) ==
  "Location: " \o Fmt4(loc.lat) \o "deg N, " \o Fmt4(loc.lon) \o "deg E"

DateLine(t) == "Date and Time (UTC): " \o FmtDateTime(t)

LegendLine(obj) ==
  "- " \o obj.name \o " at Azimuth: " \o Fmt2(obj.az) \o "deg, Altitude: "
    \o Fmt2(100 * obj.alt) \o "deg"

Legend(objs) == [j \in 1..Len(objs) |-> LegendLine(objs[j])]

Filename(t) == "star_map_" \o FmtStamp(t) \o ".txt"

(***************************************************************************)
(* What the user types.                                                    *)
(***************************************************************************)
Strip(s) == IF s = "  " THEN "" ELSE IF s = " Y " THEN "Y" ELSE s
Lower(s) == IF s = "Y" THEN "y" ELSE IF s = "N" THEN "n" ELSE s

GridSizes == MinGrid..MaxGrid
IsInt(s) == \E v \in GridSizes : ToString(v) = s
ParseInt(s) == CHOOSE v \in GridSizes : ToString(v) = s
GridInputs == {"", "  ", "abc"} \cup {ToString(v) : v \in GridSizes}
SaveInputs == {"", "n", "y", " Y "}
ColorInputs == {"", "y", "n", "N"}

LatInputs == {"48.8566", "north"}
LonInputs == {"2.3522", "east"}
IsFloat(s) == s \in {"48.8566", "2.3522"}
ParseFloat(s) == IF s = "48.8566" THEN 488566 ELSE 23522
Greenwich == [lat |-> 514769, lon |-> 0 - 5]

DateInputs == {"", "  ", "2024-03-09 21:05", "09/03/2024"}
IsDateTime(s) == s = "2024-03-09 21:05"
ParseDateTime(s) == <<2024, 3, 9, 21, 5, 0>>
Now == <<2026, 11, 3, 7, 8, 9>>

NoPos == [az |-> 0, alt |-> 0]
NoTime == <<0, 0, 0, 0, 0, 0>>

NoLocation == [lat |-> 0, lon |-> 0]
NoFile == [name |-> "", lines |-> <<>>]

(***************************************************************************)
(* The grid and its rendering.                                             *)
(***************************************************************************)
\* the grid is a sequence of grid_size rows (y = 0 first), each a string of
\* grid_size characters
RECURSIVE Repeat(_, _)
Repeat(ch, n) ==
  IF n <= 0 THEN ""
  ELSE IF n % 2 = 0 THEN LET half == Repeat(ch, n \div 2) IN half \o half
  ELSE ch \o Repeat(ch, n - 1)

EmptySky(g) == LET row == Repeat(Blank, g) IN [y \in 1..g |-> row]

CellAt(grid, x, y) == SubSeq(grid[y + 1], x + 1, x + 1)

PutChar(row, x, symbol) ==
  SubSeq(row, 1, x) \o symbol \o SubSeq(row, x + 2, Len(row))

SetCellWrapped(grid, cell, g, symbol) ==
  IF 0 - g <= cell[1] /\ cell[1] < g /\ 0 - g <= cell[2] /\ cell[2] < g
  THEN [grid EXCEPT ![(cell[2] % g) + 1] = PutChar(@, cell[1] % g, symbol)]
  ELSE grid

SetCellKeepFirst(grid, cell, g, symbol) ==
  IF InBounds(cell, g) /\ SubSeq(grid[cell[2] + 1], cell[1] + 1, cell[1] + 1) = Blank
  THEN [grid EXCEPT ![cell[2] + 1] = PutChar(@, cell[1], symbol)]
  ELSE grid

SetCell(grid, cell, g, symbol) ==
  IF InBounds(cell, g)
  THEN [grid EXCEPT ![cell[2] + 1] = PutChar(@, cell[1], symbol)]
  ELSE grid

Border(g) == "+" \o Repeat("-", g) \o "+"
RowLine(row) == "|" \o row \o "|"

RenderMapShort(grid, g) ==
  <<Border(g)>> \o [j \in 1..(Len(grid) - 1) |-> RowLine(grid[j])] \o <<Border(g)>>

\* sky_map, split at its newlines
RenderMap(grid, g) ==
  <<Border(g)>> \o [j \in 1..Len(grid) |-> RowLine(grid[j])] \o <<Border(g)>>

\* str.replace(old, new) on one line, for a one-character old
Contains(line, old) == \E j \in 1..Len(line) : SubSeq(line, j, j) = old

RECURSIVE ReplaceLine(_, _, _)
ReplaceLine(line, old, new) ==
  IF ~Contains(line, old) THEN line
  ELSE (IF Head(line) = old THEN new ELSE Head(line))
         \o ReplaceLine(Tail(line), old, new)

Replace(lines, old, new) ==
  [j \in 1..Len(lines) |-> ReplaceLine(lines[j], old, new)]

Colorize(lines) ==
  Replace(Replace(Replace(lines,
      ColorStarGlyph, Yellow \o ColorStarGlyph \o Reset),
      ColorSunGlyph, Red \o ColorSunGlyph \o Reset),
      ColorMoonGlyph, Cyan \o ColorMoonGlyph \o Reset)

\* what lines 118-126 print
ReportLines(loc, t, map, objs) ==
  <<"", "Star Map:", LocationLine(loc), DateLine(t)>> \o map
    \o <<"", "Visible Objects:">> \o Legend(objs)

\* what lines 132-138 write
FileLines(loc, t, map, objs) ==
  <<"\\033[1mStar Map:\\033[0m", LocationLine(loc), DateLine(t), "">>
    \o map \o <<"", "Visible Objects:">> \o Legend(objs)

(***************************************************************************)
(* The program.                                                            *)
(***************************************************************************)
Init ==
  /\ pc = "main"
  /\ grid_size = 0
  /\ save_to_file = FALSE
  /\ color_output = TRUE
  /\ location = NoLocation
  /\ observing_time = NoTime
  /\ sun = NoPos
  /\ moon = NoPos
  /\ star = 1
  /\ altaz = <<>>
  /\ objects = <<>>
  /\ sky = <<>>
  /\ cells = <<>>
  /\ sky_map = <<>>
  /\ isatty = "unasked"
  /\ stdout = <<>>
  /\ file = NoFile
  /\ az_in = 0
  /\ alt_in = 0
  /\ g_in = 0
  /\ cell_out = <<>>

\* __main__: the three prompts; int() of a malformed grid size raises
\* ValueError, which the outer handler reports
ReadOptions ==
  /\ pc = "main"
  /\ \E grid_input \in GridInputs, save_input \in SaveInputs,
        color_input \in ColorInputs :
       IF Strip(grid_input) # "" /\ ~IsInt(grid_input)
       THEN /\ pc' = "failed"
            /\ stdout' = Append(stdout, "An error occurred: "
                 \o "invalid literal for int() with base 10: " \o grid_input)
            /\ UNCHANGED <<grid_size, save_to_file, color_output>>
       ELSE /\ grid_size' = IF Strip(grid_input) # "" THEN ParseInt(grid_input)
                            ELSE DefaultGridSize
            /\ save_to_file' = (Lower(Strip(save_input)) = "y")
            /\ color_output' = (Lower(Strip(color_input)) # "n")
            /\ pc' = "location"
            /\ UNCHANGED stdout
  /\ UNCHANGED <<location, observing_time, sun, moon, star, altaz, objects, sky,
                 cells, sky_map, isatty, file, projVars>>

get_user_location ==
  /\ pc = "location"
  /\ \E lat \in LatInputs, lon \in LonInputs :
       IF IsFloat(lat) /\ IsFloat(lon)
       THEN /\ location' = [lat |-> ParseFloat(lat), lon |-> ParseFloat(lon)]
            /\ UNCHANGED stdout
       ELSE /\ location' = Greenwich
            /\ stdout' = Append(stdout,
                 "Invalid input. Using default location: Greenwich Observatory.")
  /\ pc' = "datetime"
  /\ UNCHANGED <<grid_size, save_to_file, color_output, observing_time, sun, moon,
                 star, altaz, objects, sky, cells, sky_map, isatty, file, projVars>>

get_user_datetime ==
  /\ pc = "datetime"
  /\ \E user_input \in DateInputs :
       IF Strip(user_input) = ""
       THEN observing_time' = Now /\ UNCHANGED stdout
       ELSE IF IsDateTime(user_input)
       THEN observing_time' = ParseDateTime(user_input) /\ UNCHANGED stdout
       ELSE /\ observing_time' = Now
            /\ stdout' = Append(stdout,
                 "Invalid date/time format. Using current time.")
  /\ pc' = "ephemeris"
  /\ UNCHANGED <<grid_size, save_to_file, color_output, location, sun, moon,
                 star, altaz, objects, sky, cells, sky_map, isatty, file, projVars>>

\* get_sun, get_moon and their transform to AltAz
ResolveSunMoon ==
  /\ pc = "ephemeris"
  /\ sun' \in SunSky
  /\ moon' \in MoonSky
  /\ objects' = <<>>
  /\ star' = 1
  /\ pc' = "stars"
  /\ UNCHANGED <<grid_size, save_to_file, color_output, location, observing_time,
                 altaz, sky, cells, sky_map, isatty, stdout, file, projVars>>

\* one iteration of: for star in star_data
FilterStar ==
  /\ pc = "stars"
  /\ star <= Len(Catalog)
  /\ \E pos \in StarSky :
       /\ altaz' = Append(altaz, pos)
       /\ objects' = IF IsVisible("star", pos.alt)
                     THEN Append(objects, [name |-> Catalog[star], az |-> pos.az,
                                           alt |-> pos.alt, symbol |-> StarSymbol])
                     ELSE objects
  /\ star' = star + 1
  /\ UNCHANGED <<pc, grid_size, save_to_file, color_output, location,
                 observing_time, sun, moon, sky, cells, sky_map, isatty, stdout,
                 file, projVars>>

FilterSun ==
  /\ pc = "stars"
  /\ star > Len(Catalog)
  /\ objects' = IF IsVisible("sun", sun.alt)
                THEN Append(objects, [name |-> "Sun", az |-> sun.az,
                                      alt |-> sun.alt, symbol |-> SunSymbol])
                ELSE objects
  /\ pc' = "moon"
  /\ UNCHANGED <<grid_size, save_to_file, color_output, location, observing_time,
                 sun, moon, star, altaz, sky, cells, sky_map, isatty, stdout, file,
                 projVars>>

\* the Moon, then the empty grid
FilterMoon ==
  /\ pc = "moon"
  /\ objects' = IF IsVisible("moon", moon.alt)
                THEN Append(objects, [name |-> "Moon", az |-> moon.az,
                                      alt |-> moon.alt, symbol |-> MoonSymbol])
                ELSE objects
  /\ sky' = EmptySky(grid_size)
  /\ pc' = "place"
  /\ UNCHANGED <<grid_size, save_to_file, color_output, location, observing_time,
                 sun, moon, star, altaz, cells, sky_map, isatty, stdout, file,
                 projVars>>

\* one iteration of: for obj in objects
PlaceObject ==
  /\ pc = "place"
  /\ Len(cells) < Len(objects)
  /\ LET obj == objects[Len(cells) + 1]
     IN  \E cell \in Project(obj.az, obj.alt, grid_size) :
           /\ cells' = Append(cells, cell)
           /\ sky' = SetCell(sky, cell, grid_size, obj.symbol)
  /\ UNCHANGED <<pc, grid_size, save_to_file, color_output, location,
                 observing_time, sun, moon, star, altaz, objects, sky_map, isatty,
                 stdout, file, projVars>>

Render ==
  /\ pc = "place"
  /\ Len(cells) = Len(objects)
  /\ sky_map' = RenderMap(sky, grid_size)
  /\ pc' = "color"
  /\ UNCHANGED <<grid_size, save_to_file, color_output, location, observing_time,
                 sun, moon, star, altaz, objects, sky, cells, isatty, stdout, file,
                 projVars>>

\* isatty() is asked only when color_output is true
AddColor ==
  /\ pc = "color"
  /\ \E tty \in (IF color_output THEN {"yes", "no"} ELSE {"unasked"}) :
       /\ isatty' = tty
       /\ sky_map' = IF color_output /\ tty = "yes" THEN Colorize(sky_map)
                     ELSE sky_map
  /\ pc' = "print"
  /\ UNCHANGED <<grid_size, save_to_file, color_output, location, observing_time,
                 sun, moon, star, altaz, objects, sky, cells, stdout, file,
                 projVars>>

PrintReport ==
  /\ pc = "print"
  /\ stdout' = stdout \o ReportLines(location, observing_time, sky_map, objects)
  /\ pc' = "save"
  /\ UNCHANGED <<grid_size, save_to_file, color_output, location, observing_time,
                 sun, moon, star, altaz, objects, sky, cells, sky_map, isatty, file,
                 projVars>>

SaveFile ==
  /\ pc = "save"
  /\ IF save_to_file
     THEN /\ file' = [name |-> Filename(observing_time),
                      lines |-> FileLines(location, observing_time, sky_map, objects)]
          /\ stdout' = stdout \o <<"",
                          "Star map saved to " \o Filename(observing_time)>>
     ELSE UNCHANGED <<file, stdout>>
  /\ pc' = "done"
  /\ UNCHANGED <<grid_size, save_to_file, color_output, location, observing_time,
                 sun, moon, star, altaz, objects, sky, cells, sky_map, isatty,
                 projVars>>

Next ==
  \/ ReadOptions
  \/ get_user_location
  \/ get_user_datetime
  \/ ResolveSunMoon
  \/ FilterStar
  \/ FilterSun
  \/ FilterMoon
  \/ PlaceObject
  \/ Render
  \/ AddColor
  \/ PrintReport
  \/ SaveFile

Spec == Init /\ [][Next]_vars

(***************************************************************************)
(* The projection on its own: any direction, any altitude from             *)
(* -MinProjAlt to 90 degrees, any grid size up to MaxProjGrid.             *)
(***************************************************************************)
InitProj ==
  /\ pc = "project"
  /\ grid_size = 0
  /\ save_to_file = FALSE
  /\ color_output = TRUE
  /\ location = NoLocation
  /\ observing_time = NoTime
  /\ sun = NoPos
  /\ moon = NoPos
  /\ star = 1
  /\ altaz = <<>>
  /\ objects = <<>>
  /\ sky = <<>>
  /\ cells = <<>>
  /\ sky_map = <<>>
  /\ isatty = "unasked"
  /\ stdout = <<>>
  /\ file = NoFile
  /\ az_in \in Directions
  /\ alt_in \in (0 - MinProjAlt)..90
  /\ g_in \in 1..MaxProjGrid
  /\ cell_out = <<>>

ApplyProject ==
  /\ pc = "project"
  /\ cell_out = <<>>
  /\ cell_out' \in Project(az_in, alt_in, g_in)
  /\ UNCHANGED <<mapVars, az_in, alt_in, g_in>>

NextProj == ApplyProject

SpecProj == InitProj /\ [][NextProj]_vars

(***************************************************************************)
(* Properties.                                                             *)
(***************************************************************************)
StartsWith(s, p) == Len(s) >= Len(p) /\ SubSeq(s, 1, Len(p)) = p
\* a row without any object is skipped: it holds no glyph
EmptyRows ==
  LET blank == Repeat(Blank, grid_size)
  IN  {blank, "|" \o blank \o "|", "+" \o Repeat("-", grid_size) \o "+"}
HasGlyph(grid, symbol) ==
  \E empty \in {EmptyRows} :
    \E y \in 1..Len(grid) : grid[y] \notin empty /\ Contains(grid[y], symbol)
Named(name) == \E j \in 1..Len(objects) : objects[j].name = name
IndexOf(name) == CHOOSE j \in 1..Len(objects) : objects[j].name = name
ListedIn(name, lines) ==
  \E prefix \in {"- " \o name \o " at Azimuth: "} :
    \E j \in 1..Len(lines) : StartsWith(lines[j], prefix)
Listed(name) == ListedIn(name, stdout) \/ ListedIn(name, file.lines)
Within(cell) ==
  cell[1] >= 0 /\ cell[1] <= grid_size - 1 /\ cell[2] >= 0 /\ cell[2] <= grid_size - 1
AboveThreshold(obj) ==
  IF obj.name = "Sun" THEN obj.alt > 0 - 18 ELSE obj.alt > 0
Absent(name) == ~Named(name) /\ ~Listed(name)
Rendered == pc \in {"color", "print", "save", "done"}

\* C1: an object at or below the threshold of its class (star 0, Sun -18,
\* Moon 0 degrees) is not among the visible objects, has no legend line on
\* stdout or in the file and no glyph in the grid; every object among the
\* visible ones is above its threshold, every glyph in the grid was put there
\* for a visible object, and every legend line is that of a visible object.
C1_VisibilityGate ==
  /\ \A j \in 1..Len(objects) : AboveThreshold(objects[j])
  /\ \A k \in 1..Len(altaz) : altaz[k].alt <= 0 => Absent(Catalog[k])
  /\ sun.alt <= 0 - 18 =>
       Absent("Sun") /\ ~HasGlyph(sky, SunSymbol) /\ ~HasGlyph(sky_map, SunSymbol)
  /\ moon.alt <= 0 =>
       Absent("Moon") /\ ~HasGlyph(sky, MoonSymbol) /\ ~HasGlyph(sky_map, MoonSymbol)
  /\ (\A k \in 1..Len(altaz) : altaz[k].alt <= 0) =>
       ~HasGlyph(sky, StarSymbol) /\ ~HasGlyph(sky_map, StarSymbol)
  /\ \A empty \in {EmptyRows} :
       /\ \A y \in 1..Len(sky) : sky[y] \notin empty =>
            \A x \in 0..(grid_size - 1) : CellAt(sky, x, y - 1) # Blank =>
              \E j \in 1..Len(cells) :
                cells[j] = <<x, y - 1>> /\ objects[j].symbol = CellAt(sky, x, y - 1)
       /\ \A lines \in {stdout, file.lines} : \A j \in 1..Len(lines) :
            (lines[j] \notin empty /\ StartsWith(lines[j], "- ")) =>
              \E k \in 1..Len(objects) : ListedIn(objects[k].name, <<lines[j]>>)

C1_Witness ==
  /\ pc = "done"
  /\ save_to_file
  /\ altaz[1].alt = 0
  /\ sun.alt = 0 - 18
  /\ moon.alt = 0
  /\ Listed(Catalog[2])
  /\ HasGlyph(sky, StarSymbol)

\* C2: the visible objects are processed as catalogue stars in catalogue
\* order, then the Sun, then the Moon, and a cell that objects were placed in
\* holds the glyph of the last of them.
Rank(name) ==
  IF name = "Sun" THEN Len(star_data) + 1
  ELSE IF name = "Moon" THEN Len(star_data) + 2
  ELSE CHOOSE k \in 1..Len(star_data) : star_data[k] = name
LastAt(cell) ==
  CHOOSE j \in 1..Len(cells) :
    cells[j] = cell /\ \A i \in 1..Len(cells) : cells[i] = cell => i <= j
C2_LastWriteWins ==
  /\ \A i, j \in 1..Len(objects) :
       i < j => Rank(objects[i].name) < Rank(objects[j].name)
  /\ \A j \in 1..Len(cells) : Within(cells[j]) =>
       CellAt(sky, cells[j][1], cells[j][2]) = objects[LastAt(cells[j])].symbol

C2_Witness ==
  /\ pc = "done"
  /\ \E i, j, k \in 1..Len(cells) :
       /\ i < j /\ j < k
       /\ cells[i] = cells[j] /\ cells[j] = cells[k] /\ Within(cells[k])
       /\ objects[i].symbol = StarSymbol
       /\ objects[j].symbol = SunSymbol
       /\ objects[k].symbol = MoonSymbol
       /\ CellAt(sky, cells[k][1], cells[k][2]) = MoonSymbol

\* C3: placing an object whose rounded projection is outside the grid on
\* either axis leaves the whole grid as it was and the loop goes on; placing
\* one inside changes at most the one cell <<x, y>>; and the report lists
\* every visible object, those outside the grid too.
C3_OutOfBoundsDropped ==
  [][ /\ (pc = "place" /\ Len(cells') = Len(cells) + 1) =>
           LET c == cells'[Len(cells')]
           IN  /\ pc' = "place"
               /\ Len(sky') = grid_size
               /\ ~Within(c) => sky' = sky
               /\ Within(c) =>
                    /\ \A y \in 1..grid_size : y # c[2] + 1 => sky'[y] = sky[y]
                    /\ Len(sky'[c[2] + 1]) = grid_size
                    /\ \A x \in 0..(grid_size - 1) :
                         x # c[1] => CellAt(sky', x, c[2]) = CellAt(sky, x, c[2])
      /\ pc = "print" =>
           \A j \in 1..Len(objects) : ListedIn(objects[j].name, stdout')
    ]_vars

C3_Witness ==
  /\ pc = "done"
  /\ \E j, k \in 1..Len(cells) :
       /\ cells[j][1] < 0
       /\ cells[k][1] >= grid_size
       /\ ListedIn(objects[j].name, stdout)
       /\ ListedIn(objects[k].name, stdout)
       /\ ~HasGlyph(sky, objects[j].symbol)

\* C4 as stated: a Sun at -20 degrees is in neither the grid nor the legend;
\* a Sun at -10 degrees is in the legend and, unless the Moon took its cell,
\* its glyph is in the grid.
MoonOverSun ==
  Named("Sun") /\ Named("Moon") /\ cells[IndexOf("Moon")] = cells[IndexOf("Sun")]
C4_SunAtMinus10InGrid ==
  pc = "done" =>
    /\ sun.alt = 0 - 20 => Absent("Sun") /\ ~HasGlyph(sky, SunSymbol)
    /\ sun.alt = 0 - 10 =>
         /\ ListedIn("Sun", stdout)
         /\ ~MoonOverSun => HasGlyph(sky, SunSymbol)

\* C4 amended: a Sun at -20 degrees is in neither the grid nor the legend; a
\* Sun at -10 degrees is in the legend, and its glyph is in the grid, in the
\* cell it projects to, exactly when that cell is inside the grid and the
\* Moon did not take it.
C4_SunAtMinus10InGridIfInside ==
  pc = "done" =>
    /\ sun.alt = 0 - 20 => Absent("Sun") /\ ~HasGlyph(sky, SunSymbol)
    /\ sun.alt = 0 - 10 =>
         /\ ListedIn("Sun", stdout)
         /\ Named("Sun")
         /\ LET c == cells[IndexOf("Sun")]
            IN  IF Within(c) /\ ~MoonOverSun
                THEN CellAt(sky, c[1], c[2]) = SunSymbol
                ELSE ~HasGlyph(sky, SunSymbol)

C4_Witness ==
  /\ pc = "done"
  /\ sun.alt = 0 - 10
  /\ ListedIn("Sun", stdout)
  /\ HasGlyph(sky, SunSymbol)

\* C5: for every direction and every grid size an object at the zenith
\* (altitude 90 degrees) is projected to <<c, c>>, where c is grid_size/2 for
\* an even grid size and the even one of the two neighbours of grid_size/2
\* for an odd one.
HalfToEven(g) ==
  IF g % 2 = 0 THEN g \div 2
  ELSE IF ((g - 1) \div 2) % 2 = 0 THEN (g - 1) \div 2 ELSE (g + 1) \div 2
C5_ZenithAtCentre ==
  (cell_out # <<>> /\ alt_in = 90) => cell_out = <<HalfToEven(g_in), HalfToEven(g_in)>>

C5_Witness ==
  /\ alt_in = 90
  /\ az_in = 12687
  /\ g_in = 5
  /\ cell_out = <<2, 2>>

\* C6: for every direction, every altitude from 0 to 90 degrees and every
\* grid size of at least 2 the rounded projection is inside the grid on both
\* axes, so that the guard drops no such object.
C6_AboveHorizonInsideGrid ==
  (cell_out # <<>> /\ alt_in >= 0 /\ alt_in <= 90 /\ g_in >= 2) =>
    /\ 0 <= cell_out[1] /\ cell_out[1] < g_in
    /\ 0 <= cell_out[2] /\ cell_out[2] < g_in

\* C7: the rendered map is a border "+" grid_size times "-" "+", then
\* grid_size rows "|" grid_size one-character glyphs "|", then the border;
\* the grid keeps grid_size rows of grid_size characters while objects are
\* placed; with no visible object every interior cell is blank.
Glyphs == {" ", "s", "O", "C"}
C7_MapShape ==
  /\ pc \in {"place", "color", "print", "save", "done"} =>
       /\ Len(sky) = grid_size
       /\ \A y \in 1..grid_size : Len(sky[y]) = grid_size
  /\ Rendered =>
       \A border \in {"+" \o Repeat("-", grid_size) \o "+"},
          blankRow \in {"|" \o Repeat(" ", grid_size) \o "|"} :
           /\ Len(sky_map) = grid_size + 2
           /\ sky_map[1] = border
           /\ sky_map[Len(sky_map)] = border
           /\ \A y \in 2..(Len(sky_map) - 1) :
                \/ sky_map[y] = blankRow
                \/ /\ objects # <<>>
                   /\ Len(sky_map[y]) = grid_size + 2
                   /\ SubSeq(sky_map[y], 1, 1) = "|"
                   /\ SubSeq(sky_map[y], grid_size + 2, grid_size + 2) = "|"
                   /\ \A x \in 2..(grid_size + 1) :
                        SubSeq(sky_map[y], x, x) \in Glyphs

C7_Witness ==
  /\ pc = "done"
  /\ Len(objects) = NumStars + 2
  /\ color_output
  /\ isatty = "yes"
  /\ HasGlyph(sky_map, "O")
  /\ HasGlyph(sky_map, "C")

\* C8: malformed input at a prompt never ends the run in the top-level
\* "An error occurred" branch.
C8_MalformedInputNeverFatal ==
  /\ pc # "failed"
  /\ \A j \in 1..Len(stdout) : ~StartsWith(stdout[j], "An error occurred")

\* C9: when save_to_file is true the file star_map_<YYYYMMDD_HHMMSS>.txt
\* holds the lines of the report printed to stdout: the same title and header
\* lines, the same map and the same legend lines, in the same order.
NonBlank(lines) == SelectSeq(lines, LAMBDA l : l # "")
PrintedReport ==
  LET first == CHOOSE j \in 1..Len(stdout) : stdout[j] = "Star Map:"
  IN  SubSeq(stdout, first, Len(stdout) - 2)
C9_FileSameAsStdout ==
  (pc = "done" /\ save_to_file) =>
    /\ file.name = "star_map_" \o FmtStamp(observing_time) \o ".txt"
    /\ NonBlank(file.lines) = NonBlank(PrintedReport)

\* C10: with color_output true and stdout a terminal every star, Sun and Moon
\* glyph of the grid is wrapped, in the map that is printed, in the escape
\* code of its class (three different codes); otherwise the map holds the
\* plain glyphs.
WrapGlyph(ch) ==
  IF ch = "s" THEN "^[93m" \o ch \o "^[0m"
  ELSE IF ch = "O" THEN "^[91m" \o ch \o "^[0m"
  ELSE IF ch = "C" THEN "^[96m" \o ch \o "^[0m"
  ELSE ch
RECURSIVE WrapRow(_)
WrapRow(row) ==
  IF row \in EmptyRows \/ row = "" THEN row
  ELSE WrapGlyph(Head(row)) \o WrapRow(Tail(row))
C10_ColorPerClass ==
  pc \in {"print", "save", "done"} =>
    \A y \in 1..Len(sky) :
      sky_map[y + 1] =
        "|" \o (IF color_output /\ isatty = "yes" THEN WrapRow(sky[y]) ELSE sky[y])
          \o "|"

====
